---- MODULE Spec2Model ----
(***************************************************************************)
(* Model of scripts/synchronize-documentation.js: the DocUpdater class     *)
(* (marker-delimited replacement in markdown text and files), the content  *)
(* generators and main.                                                    *)
(*                                                                         *)
(* Text is a sequence of tokens.  A token is either one character of       *)
(* ordinary text or one whole marker comment "<!-- BEGIN p: id ... -->";   *)
(* a marker comment carries the fields the regular expression of           *)
(* updateSection looks at.                                                 *)
(***************************************************************************)
EXTENDS Integers, Sequences, FiniteSets, TLC

VARIABLES
    updater,    \* the DocUpdater object: [markerPrefix, source]
    secIn,      \* arguments of the updateSection call under study
    secOut,     \* its return value ([done |-> FALSE, ...] before the call)
    fs,         \* the file system: [dirs, files]
    writes,     \* every fs.writeFileSync so far, in order: [path, data]
    fileOut,    \* the last updateFile call: its arguments, the file it
                \* found and its outcome
    genOut,     \* the last generator call: its inputs and its outcome
    variant,    \* which revision of the script runs
    argv,       \* process.argv.slice(2)
    pc,         \* position of main
    docsRepo,   \* main's docsRepo (Null until parsed)
    page,       \* main's page
    exitCode,   \* exit status of the process (Running until it ends)
    log,        \* console output, one entry per message
    generated,  \* content returned by the generator main called
    invoked,    \* generators main has called
    steps       \* main's checks that succeeded, in order

secVars == <<secIn, secOut>>
fsVars == <<fs, writes, fileOut>>
mainVars == <<variant, argv, pc, docsRepo, page, exitCode, log, generated, invoked, steps>>
vars == <<updater, secVars, fsVars, genOut, mainVars>>

(***************************************************************************)
(* Characters and names                                                    *)
(***************************************************************************)

\* \w of a JavaScript regular expression without the u/i flags
WordChars ==
    {"a","b","c","d","e","f","g","h","i","j","k","l","m","n","o","p","q","r",
     "s","t","u","v","w","x","y","z",
     "A","B","C","D","E","F","G","H","I","J","K","L","M","N","O","P","Q","R",
     "S","T","U","V","W","X","Y","Z",
     "0","1","2","3","4","5","6","7","8","9","_"}

\* the source main constructs the updater with, spelled character by character
Source ==
    <<"o","p","e","n","t","e","l","e","m","e","t","r","y","-",
      "c","o","n","f","i","g","u","r","a","t","i","o","n">>

MarkerPrefix == "GENERATED"

(***************************************************************************)
(* Tokens                                                                  *)
(***************************************************************************)

\* a run of ordinary text; one character where the character matters
Text(c) ==
    [tag |-> "TEXT", text |-> c, prefix |-> "", id |-> "",
     hasSource |-> FALSE, ws |-> 0, source |-> <<>>]

\* "<!-- tag prefix: id -->"
MarkerNoSource(tag, prefix, id) ==
    [tag |-> tag, text |-> "", prefix |-> prefix, id |-> id,
     hasSource |-> FALSE, ws |-> 0, source |-> <<>>]

\* "<!-- tag prefix: id" ws blanks "SOURCE:" ws blanks name " -->"
MarkerWithSource(tag, prefix, id, ws, name) ==
    [tag |-> tag, text |-> "", prefix |-> prefix, id |-> id,
     hasSource |-> TRUE, ws |-> ws, source |-> name]

NL == Text("\n")

\* the characters String.prototype.replace gives a meaning to after "$";
\* the grave accent and the apostrophe are written by their code points
Dollar == Text("$")
Ampersand == Text("&")
GraveAccent == Text("U+0060")
Apostrophe == Text("U+0027")

(***************************************************************************)
(* class DocUpdater                                                        *)
(***************************************************************************)

DocUpdater(markerPrefix, source) ==
    [markerPrefix |-> markerPrefix, source |-> source]

getMarkerPatternNoSource(self, markerId) ==
    [begin |-> MarkerNoSource("BEGIN", self.markerPrefix, markerId),
     end   |-> MarkerNoSource("END", self.markerPrefix, markerId)]

getMarkerPattern(self, markerId) ==
    [begin |-> MarkerWithSource("BEGIN", self.markerPrefix, markerId, 1, self.source),
     end   |-> MarkerWithSource("END", self.markerPrefix, markerId, 1, self.source)]

\* (?:\s+SOURCE:\s+[\w-]+)? followed by " -->": the group is optional; when
\* the text has a SOURCE part it needs blanks around "SOURCE:" and a
\* non-empty name of word characters and hyphens.

SourceGroupAnyName(tok) ==
    \/ ~tok.hasSource
    \/ (tok.ws >= 1 /\ Len(tok.source) >= 1)

SourceGroupMatches(tok) ==
    \/ ~tok.hasSource
    \/ /\ tok.ws >= 1
       /\ Len(tok.source) >= 1
       /\ \A k \in 1..Len(tok.source) : tok.source[k] \in WordChars \cup {"-"}

\* beginPattern / endPattern against one token
MarkerMatches(self, tag, markerId, tok) ==
    /\ tok.tag = tag
    /\ tok.prefix = self.markerPrefix
    /\ tok.id = markerId
    /\ SourceGroupMatches(tok)

NoMatch == [found |-> FALSE, index |-> 0, end |-> 0]

\* The lazy [\s\S]*? stops at the first place where endPattern matches.
LazyEnd(self, markerId, content, i) ==
    LET ends == {j \in (i+1)..Len(content) : MarkerMatches(self, "END", markerId, content[j])}
    IN  IF ends = {} THEN 0 ELSE CHOOSE j \in ends : \A k \in ends : j <= k

\* pattern.exec from lastIndex (0-based count of tokens already consumed):
\* the leftmost start at which the whole pattern matches.
RegExpExec(self, markerId, content, lastIndex) ==
    LET starts == {i \in (lastIndex+1)..Len(content) :
                     /\ MarkerMatches(self, "BEGIN", markerId, content[i])
                     /\ LazyEnd(self, markerId, content, i) # 0}
    IN  IF starts = {} THEN NoMatch
        ELSE LET i == CHOOSE s \in starts : \A k \in starts : s <= k
             IN  [found |-> TRUE, index |-> i, end |-> LazyEnd(self, markerId, content, i)]

\* pattern.test(content) of a global pattern: reports the match and leaves
\* lastIndex after it (0 when there is none).
RegExpTest(self, markerId, content, lastIndex) ==
    LET m == RegExpExec(self, markerId, content, lastIndex)
    IN  [matched |-> m.found, lastIndex |-> IF m.found THEN m.end ELSE 0]

\* the pattern has no capturing group: both groups are (?: ... )
NumCaptures == 0

DigitValue(c) ==
    CASE c = "1" -> 1 [] c = "2" -> 2 [] c = "3" -> 3 [] c = "4" -> 4 [] c = "5" -> 5
      [] c = "6" -> 6 [] c = "7" -> 7 [] c = "8" -> 8 [] c = "9" -> 9 [] OTHER -> 0

\* "$n" names capture n only when 1 <= n <= NumCaptures
IsCaptureRef(tok) ==
    /\ tok.tag = "TEXT"
    /\ DigitValue(tok.text) >= 1
    /\ DigitValue(tok.text) <= NumCaptures

Min(S) == CHOOSE x \in S : \A y \in S : x <= y

\* GetSubstitution of String.prototype.replace with a string replacement,
\* from position k on: the text up to the next "$" that has a character
\* after it is copied; "$$", "$&", "$" + grave accent and "$" + apostrophe
\* are expanded; "$n" only when capture n exists (none here, and then it
\* stands for itself); "$<" only with named groups (none here).
RECURSIVE GetSubstitution(_, _, _, _)
GetSubstitution(content, m, replacement, k) ==
    LET dollars == {d \in k..(Len(replacement) - 1) : replacement[d] = Dollar}
    IN  IF dollars = {} THEN SubSeq(replacement, k, Len(replacement))
        ELSE LET d == Min(dollars)
                 nx == replacement[d + 1]
             IN  SubSeq(replacement, k, d - 1)
                   \o (IF nx = Dollar
                       THEN <<Dollar>> \o GetSubstitution(content, m, replacement, d + 2)
                       ELSE IF nx = Ampersand
                       THEN SubSeq(content, m.index, m.end)
                              \o GetSubstitution(content, m, replacement, d + 2)
                       ELSE IF nx = GraveAccent
                       THEN SubSeq(content, 1, m.index - 1)
                              \o GetSubstitution(content, m, replacement, d + 2)
                       ELSE IF nx = Apostrophe
                       THEN SubSeq(content, m.end + 1, Len(content))
                              \o GetSubstitution(content, m, replacement, d + 2)
                       ELSE IF IsCaptureRef(nx)
                       THEN GetSubstitution(content, m, replacement, d + 2)
                       ELSE <<Dollar>> \o GetSubstitution(content, m, replacement, d + 1))

\* String.prototype.replace resets the lastIndex of a global pattern to 0
\* before it scans, whatever an earlier test() left there.
ReplaceKeepsLastIndex(lastIndexAfterTest) == lastIndexAfterTest

ReplaceStartIndex(lastIndexAfterTest) == 0

\* content.replace(pattern, replacement) for the global pattern: every
\* non-overlapping match after position "from" is replaced, the rest is copied.
RECURSIVE ReplaceAll(_, _, _, _, _)
ReplaceAll(self, markerId, content, replacement, from) ==
    LET m == RegExpExec(self, markerId, content, from)
    IN  IF ~m.found THEN SubSeq(content, from + 1, Len(content))
        ELSE SubSeq(content, from + 1, m.index - 1)
               \o GetSubstitution(content, m, replacement, 1)
               \o ReplaceAll(self, markerId, content, replacement, m.end)

StringReplace(self, markerId, content, replacement, lastIndexAfterTest) ==
    LET start == ReplaceStartIndex(lastIndexAfterTest)
    IN  SubSeq(content, 1, start)
          \o ReplaceAll(self, markerId, content, replacement, start)

updateSection(self, content, markerId, newContent) ==
    LET mp == getMarkerPattern(self, markerId)
        t  == RegExpTest(self, markerId, content, 0)
    IN  IF ~t.matched
        THEN [content |-> content, wasUpdated |-> FALSE]
        ELSE LET replacement == <<mp.begin, NL>> \o newContent \o <<NL, mp.end>>
             IN  [content |-> StringReplace(self, markerId, content, replacement, t.lastIndex),
                  wasUpdated |-> TRUE]

(***************************************************************************)
(* File system, node:fs and node:path                                      *)
(***************************************************************************)

Cwd == "/work"

\* the relative paths that appear on the command line are plain names
IsAbsolute(p) == p = Cwd

\* path.resolve(p): an absolute path stays, a relative one is put under the
\* working directory
resolve(p) == IF IsAbsolute(p) THEN p ELSE Cwd \o "/" \o p

\* path.join(dir, rel) for a relative rel without "." or ".." segments
join(dir, rel) == dir \o "/" \o rel

NoFile == [exists |-> FALSE, data |-> <<>>]

File(data) == [exists |-> TRUE, data |-> data]

\* fs.existsSync
existsSync(fsys, path) ==
    \/ path \in fsys.dirs
    \/ (path \in DOMAIN fsys.files /\ fsys.files[path].exists)

\* fs.readFileSync(path, 'utf-8') of an existing regular file
readFileSync(fsys, path) == fsys.files[path].data

\* fs.writeFileSync(path, data, 'utf-8')
writeFileSync(fsys, path, data) ==
    [fsys EXCEPT !.files = [q \in DOMAIN fsys.files \cup {path} |->
                              IF q = path THEN File(data) ELSE fsys.files[q]]]

NoError == "none"

\* updateFile writing whether or not the section was found
updateFileAlwaysWrites(self, fsys, filePath, markerId, newContent) ==
    IF ~existsSync(fsys, filePath)
    THEN [threw |-> "File not found", ret |-> FALSE, fs |-> fsys, written |-> <<>>]
    ELSE LET r == updateSection(self, readFileSync(fsys, filePath), markerId, newContent)
         IN  [threw |-> NoError, ret |-> r.wasUpdated,
              fs |-> writeFileSync(fsys, filePath, r.content),
              written |-> <<[path |-> filePath, data |-> r.content]>>]

\* DocUpdater.updateFile: what it throws, what it returns, the file system
\* it leaves and the writes it made.  A path that exists but is a
\* directory makes readFileSync throw.
updateFile(self, fsys, filePath, markerId, newContent) ==
    IF ~existsSync(fsys, filePath)
    THEN [threw |-> "File not found", ret |-> FALSE, fs |-> fsys, written |-> <<>>]
    ELSE IF filePath \in fsys.dirs
    THEN [threw |-> "EISDIR", ret |-> FALSE, fs |-> fsys, written |-> <<>>]
    ELSE LET originalContent == readFileSync(fsys, filePath)
             r == updateSection(self, originalContent, markerId, newContent)
         IN  IF ~r.wasUpdated
             THEN [threw |-> NoError, ret |-> FALSE, fs |-> fsys, written |-> <<>>]
             ELSE [threw |-> NoError, ret |-> TRUE,
                   fs |-> writeFileSync(fsys, filePath, r.content),
                   written |-> <<[path |-> filePath, data |-> r.content]>>]

(***************************************************************************)
(* Content generators.  What the imported readers return is the input      *)
(* env = [knownLanguages, messages, languageImplementations, sourceTypes]. *)
(***************************************************************************)

Thrown(message) == [threw |-> message, content |-> <<>>]

Returned(content) == [threw |-> NoError, content |-> content]

\* Array.prototype.find, for a predicate that compares one field of the item
\* with a value: the index of the first such element, 0 for undefined
FindIndex(seq, field, value) ==
    LET hits == {k \in DOMAIN seq : seq[k][field] = value}
    IN  IF hits = {} THEN 0 ELSE Min(hits)

\* String.prototype.toLowerCase on the type names of the model
toLowerCase(name) ==
    CASE name = "Aggregation" -> "aggregation"
      [] name = "ExperimentalLogs" -> "experimentallogs"
      [] name = "Sampler" -> "sampler"
      [] name = "Zipkin" -> "zipkin"
      [] OTHER -> name

IsBlank(tok) == tok = NL \/ tok = Text(" ")

\* String.prototype.trimEnd
RECURSIVE trimEnd(_)
trimEnd(out) ==
    IF out # <<>> /\ IsBlank(out[Len(out)])
    THEN trimEnd(SubSeq(out, 1, Len(out) - 1))
    ELSE out

\* the names listed in the details column: sortedProperties() of an object
\* type, sortedEnumValues() of an enum type
DetailNames(sourceSchemaType) ==
    IF ~sourceSchemaType.isEnum
    THEN [k \in DOMAIN sourceSchemaType.properties |-> sourceSchemaType.properties[k].property]
    ELSE [k \in DOMAIN sourceSchemaType.enumValues |-> sourceSchemaType.enumValues[k].enumValue]

\* the overrides that apply: propertyOverrides of an object type,
\* enumOverrides of an enum type
DetailOverrides(sourceSchemaType, typeSupportStatus) ==
    IF ~sourceSchemaType.isEnum
    THEN [k \in DOMAIN typeSupportStatus.propertyOverrides |->
            [name |-> typeSupportStatus.propertyOverrides[k].property,
             status |-> typeSupportStatus.propertyOverrides[k].status]]
    ELSE [k \in DOMAIN typeSupportStatus.enumOverrides |->
            [name |-> typeSupportStatus.enumOverrides[k].enumValue,
             status |-> typeSupportStatus.enumOverrides[k].status]]

\* one "bullet name: status<br>" per property or enum value, the status
\* that of its override when there is one
RECURSIVE supportStatusDetails(_, _, _, _, _)
supportStatusDetails(bullet, names, overrides, defaultStatus, k) ==
    IF k > Len(names) THEN <<>>
    ELSE LET o == FindIndex(overrides, "name", names[k])
             status == IF o # 0 THEN overrides[o].status ELSE defaultStatus
         IN  <<Text(bullet), Text(names[k]), Text(": "), Text(status), Text("<br>")>>
               \o supportStatusDetails(bullet, names, overrides, defaultStatus, k + 1)

LinkBase(v) ==
    IF v = "current" THEN "../types#"
    ELSE "https://github.com/open-telemetry/opentelemetry-configuration/blob/main/schema-docs.md#"

Bullet(v) == IF v = "current" THEN "U+2022 " ELSE "* "

\* the rows of one language: throws at the first typeSupportStatus whose
\* type the source schema does not hold
RECURSIVE TypeRows(_, _, _, _)
TypeRows(v, sourceTypes, statuses, k) ==
    IF k > Len(statuses) THEN Returned(<<>>)
    ELSE LET typeSupportStatus == statuses[k]
             t == FindIndex(sourceTypes, "type", typeSupportStatus.type)
         IN  IF t = 0 THEN Thrown("SourceSchemaType not found")
             ELSE LET rest == TypeRows(v, sourceTypes, statuses, k + 1)
                      row == <<Text("| ["), Text(typeSupportStatus.type), Text("]("),
                               Text(LinkBase(v)), Text(toLowerCase(typeSupportStatus.type)),
                               Text(") | "), Text(typeSupportStatus.status), Text(" | "),
                               Text(typeSupportStatus.notes), Text(" | ")>>
                             \o supportStatusDetails(
                                    Bullet(v), DetailNames(sourceTypes[t]),
                                    DetailOverrides(sourceTypes[t], typeSupportStatus),
                                    typeSupportStatus.status, 1)
                             \o <<Text(" |"), NL>>
                  IN  IF rest.threw # NoError THEN rest
                      ELSE Returned(row \o rest.content)

LanguageHeading(v, language) ==
    IF v = "current"
    THEN <<Text("### "), Text(language), Text(" {#"), Text(language), Text("}"), NL, NL>>
    ELSE <<Text("### "), Text(language), NL, NL>>

\* KNOWN_LANGUAGES.forEach: the tables language by language; throws for the
\* first language without a record, the record being the first one found
RECURSIVE LanguageTables(_, _, _)
LanguageTables(v, env, k) ==
    IF k > Len(env.knownLanguages) THEN Returned(<<>>)
    ELSE LET language == env.knownLanguages[k]
             f == FindIndex(env.languageImplementations, "language", language)
         IN  IF f = 0 THEN Thrown("LanguageImplementation not found")
             ELSE LET languageImplementation == env.languageImplementations[f]
                      rows == TypeRows(v, env.sourceTypes,
                                       languageImplementation.typeSupportStatuses, 1)
                  IN  IF rows.threw # NoError THEN rows
                      ELSE LET rest == LanguageTables(v, env, k + 1)
                           IN  IF rest.threw # NoError THEN rest
                               ELSE Returned(
                                      LanguageHeading(v, language)
                                        \o <<Text("Latest supported file format: "),
                                             Text(languageImplementation.latestSupportedFileFormat),
                                             NL, NL,
                                             Text("| Type | Status | Notes | Support Status Details |"), NL,
                                             Text("|---|---|---|---|"), NL>>
                                        \o rows.content \o <<NL>> \o rest.content)

\* the check of messages dropped
generateWithoutMessageCheck(v, env) ==
    LET tables == LanguageTables(v, env, 1)
    IN  IF tables.threw # NoError THEN tables ELSE Returned(tables.content)

generateLanguageImplementationStatus(v, env) ==
    IF Len(env.messages) > 0 THEN Thrown("Language implementations have problems")
    ELSE LET tables == LanguageTables(v, env, 1)
         IN  IF tables.threw # NoError THEN tables
             ELSE IF v = "current"
             THEN Returned(trimEnd(
                    <<Text("{{< sdk-lang-status-accordion >}}"), NL, NL,
                      Text("<div class=language-implementation-status-content>"), NL, NL>>
                      \o tables.content \o <<Text("</div>")>>))
             ELSE Returned(tables.content)

(***************************************************************************)
(* generateTypesDocumentation                                              *)
(***************************************************************************)

\* rank of the type names of the model under String.prototype.localeCompare
LocaleRank(name) ==
    CASE name = "Aggregation" -> 1
      [] name = "ExperimentalLogs" -> 2
      [] name = "Sampler" -> 3
      [] OTHER -> 4

\* sourceTypes.sort((a, b) => a.type.localeCompare(b.type))
RECURSIVE SortByType(_)
SortByType(types) ==
    IF types = <<>> THEN <<>>
    ELSE LET m == CHOOSE k \in DOMAIN types :
                    \A j \in DOMAIN types :
                        \/ LocaleRank(types[k].type) < LocaleRank(types[j].type)
                        \/ (LocaleRank(types[k].type) = LocaleRank(types[j].type) /\ k <= j)
         IN  <<types[m]>> \o SortByType([j \in 1..(Len(types) - 1) |->
                                           IF j < m THEN types[j] ELSE types[j + 1]])

\* a description as the schema gives it: undefined, or parts of text, a
\* part being a run of text, a newline or a "See <url> for details" phrase
Undefined == [defined |-> FALSE, parts |-> <<>>]

Description(parts) == [defined |-> TRUE, parts |-> parts]

SeePhrase(url) ==
    [tag |-> "SEE", text |-> url, prefix |-> "", id |-> "",
     hasSource |-> FALSE, ws |-> 0, source |-> <<>>]

\* formatDescriptionWithLinks on a defined description: each "See <url> for
\* details" phrase becomes a link
formatDescriptionWithLinks(parts) ==
    [k \in DOMAIN parts |->
        IF parts[k].tag = "SEE"
        THEN Text("([See here for more details](" \o parts[k].text \o "))")
        ELSE parts[k]]

\* .split("\n").join("<br>")
BreakLines(parts) ==
    [k \in DOMAIN parts |-> IF parts[k] = NL THEN Text("<br>") ELSE parts[k]]

\* formatConstraints: schema.constraints holds the constraint properties
\* that are set, in the order of constraintPropertyNames
RECURSIVE ConstraintLines(_, _, _)
ConstraintLines(constraints, k, single) ==
    IF k > Len(constraints) THEN <<>>
    ELSE (IF single THEN <<>> ELSE <<Text("U+2022 ")>>)
           \o <<Text(constraints[k].name), Text(": "), Text(constraints[k].json)>>
           \o (IF single THEN <<>> ELSE <<Text("<br>")>>)
           \o ConstraintLines(constraints, k + 1, single)

NoConstraints == <<Text("None.")>>

formatConstraints(schema) ==
    IF Len(schema.constraints) > 0
    THEN ConstraintLines(schema.constraints, 1, Len(schema.constraints) = 1)
    ELSE NoConstraints

\* formatPropertyType
RECURSIVE PropertyTypeList(_, _, _, _)
PropertyTypeList(sourceTypes, types, k, many) ==
    IF k > Len(types) THEN <<>>
    ELSE LET r == FindIndex(sourceTypes, "type", types[k])
         IN  (IF many THEN <<Text("U+2022 ")>> ELSE <<>>)
               \o (IF r # 0
                   THEN <<Text("["), Text(sourceTypes[r].type), Text("](#"),
                          Text(toLowerCase(sourceTypes[r].type)), Text(")")>>
                   ELSE <<Text(types[k])>>)
               \o (IF many THEN <<Text("<br>")>> ELSE <<>>)
               \o PropertyTypeList(sourceTypes, types, k + 1, many)

formatPropertyType(sourceTypes, sourceProperty) ==
    (IF sourceProperty.isSeq THEN <<Text("array of ")>> ELSE <<>>)
      \o (IF Len(sourceProperty.types) > 1 THEN <<Text("one of:<br>")>> ELSE <<>>)
      \o PropertyTypeList(sourceTypes, sourceProperty.types, 1, Len(sourceProperty.types) > 1)

\* the rows of an enum type: a value without a description makes
\* formatDescriptionWithLinks call replace on undefined, a TypeError
RECURSIVE EnumRows(_, _)
EnumRows(enumValues, k) ==
    IF k > Len(enumValues) THEN Returned(<<>>)
    ELSE IF ~enumValues[k].description.defined THEN Thrown("TypeError")
    ELSE LET rest == EnumRows(enumValues, k + 1)
         IN  IF rest.threw # NoError THEN rest
             ELSE Returned(
                    <<Text("| "), Text(enumValues[k].enumValue), Text(" | ")>>
                      \o BreakLines(formatDescriptionWithLinks(enumValues[k].description.parts))
                      \o <<Text(" |"), NL>> \o rest.content)

\* the rows of an object type; a property without a description throws
RECURSIVE PropertyRows(_, _, _, _)
PropertyRows(sourceTypes, sourceSchemaType, hasConstraints, k) ==
    LET properties == sourceSchemaType.properties
    IN  IF k > Len(properties) THEN Returned(<<>>)
        ELSE IF ~properties[k].description.defined THEN Thrown("TypeError")
        ELSE LET sourceSchemaProperty == properties[k]
                 rest == PropertyRows(sourceTypes, sourceSchemaType, hasConstraints, k + 1)
                 formattedProperty ==
                     <<Text(sourceSchemaProperty.property)>>
                       \o (IF sourceSchemaProperty.property \in sourceSchemaType.required
                           THEN <<Text("<sup>*</sup>")>> ELSE <<>>)
                       \o (IF sourceSchemaProperty.experimental
                           THEN <<Text("<br>**Experimental**")>> ELSE <<>>)
             IN  IF rest.threw # NoError THEN rest
                 ELSE Returned(
                        <<Text("| ")>> \o formattedProperty \o <<Text(" | ")>>
                          \o formatPropertyType(sourceTypes, sourceSchemaProperty)
                          \o <<Text(" | "), Text(sourceSchemaProperty.defaultBehavior), Text(" | ")>>
                          \o (IF hasConstraints
                              THEN formatConstraints(sourceSchemaProperty) \o <<Text(" | ")>>
                              ELSE <<>>)
                          \o BreakLines(formatDescriptionWithLinks(
                                            sourceSchemaProperty.description.parts))
                          \o <<Text(" |"), NL>> \o rest.content)

TypeConstraints(sourceSchemaType) ==
    IF formatConstraints(sourceSchemaType) # NoConstraints
    THEN <<Text("**Constraints:**"), NL, NL>> \o formatConstraints(sourceSchemaType) \o <<NL>>
    ELSE <<>>

writeType(sourceTypes, sourceSchemaType) ==
    LET heading ==
            <<Text("### "), Text(sourceSchemaType.type), Text(" {#"),
              Text(toLowerCase(sourceSchemaType.type)), Text("}"), NL, NL>>
              \o (IF sourceSchemaType.isSdkExtensionPlugin
                  THEN <<Text(sourceSchemaType.type),
                         Text(" is an SDK extension plugin point."), NL, NL>>
                  ELSE <<>>)
              \o (IF sourceSchemaType.description.defined
                     /\ sourceSchemaType.description.parts # <<>>
                  THEN formatDescriptionWithLinks(sourceSchemaType.description.parts)
                         \o <<NL, NL>>
                  ELSE <<>>)
    IN  IF sourceSchemaType.isEnum
        THEN LET rows == EnumRows(sourceSchemaType.enumValues, 1)
             IN  IF rows.threw # NoError THEN rows
                 ELSE Returned(
                        heading
                          \o <<Text("**This is an enum type.**"), NL, NL,
                               Text("<div class=types-table>"), NL, NL,
                               Text("| Value | Description |"), NL, Text("|---|---|"), NL>>
                          \o rows.content \o <<NL, Text("</div>"), NL, NL>>
                          \o TypeConstraints(sourceSchemaType))
        ELSE IF Len(sourceSchemaType.properties) = 0
        THEN Returned(heading \o <<Text("**No properties.**"), NL, NL>>
                        \o TypeConstraints(sourceSchemaType))
        ELSE LET hasConstraints ==
                     \E k \in DOMAIN sourceSchemaType.properties :
                         formatConstraints(sourceSchemaType.properties[k]) # NoConstraints
                 rows == PropertyRows(sourceTypes, sourceSchemaType, hasConstraints, 1)
             IN  IF rows.threw # NoError THEN rows
                 ELSE Returned(
                        heading
                          \o <<Text("<div class=types-table>"), NL, NL>>
                          \o (IF hasConstraints
                              THEN <<Text("| Property | Type | Default Behavior | Constraints | Description |"),
                                     NL, Text("|---|---|---|---|---|"), NL>>
                              ELSE <<Text("| Property | Type | Default Behavior | Description |"),
                                     NL, Text("|---|---|---|---|"), NL>>)
                          \o rows.content \o <<NL, Text("</div>"), NL, NL>>
                          \o TypeConstraints(sourceSchemaType))

\* types.forEach(writeType)
RECURSIVE WriteTypes(_, _, _)
WriteTypes(sourceTypes, types, k) ==
    IF k > Len(types) THEN Returned(<<>>)
    ELSE LET one == writeType(sourceTypes, types[k])
         IN  IF one.threw # NoError THEN one
             ELSE LET rest == WriteTypes(sourceTypes, types, k + 1)
                  IN  IF rest.threw # NoError THEN rest
                      ELSE Returned(one.content \o rest.content)

generateTypesDocumentation(env) ==
    LET sorted == SortByType(env.sourceTypes)
        types == SelectSeq(sorted, LAMBDA t : ~t.experimental)
        experimentalTypes == SelectSeq(sorted, LAMBDA t : t.experimental)
        stable == WriteTypes(sorted, types, 1)
    IN  IF stable.threw # NoError THEN stable
        ELSE LET experimental == WriteTypes(sorted, experimentalTypes, 1)
             IN  IF Len(experimentalTypes) > 0 /\ experimental.threw # NoError
                 THEN experimental
                 ELSE Returned(trimEnd(
                        <<Text("## Stable Types"), NL, NL>> \o stable.content
                          \o (IF Len(experimentalTypes) > 0
                              THEN <<Text("## Experimental Types"), NL, NL,
                                     Text("> **Warning:** Experimental types are subject to breaking changes."),
                                     NL, NL>> \o experimental.content
                              ELSE <<>>)))

(***************************************************************************)
(* main                                                                    *)
(***************************************************************************)

Null == "(null)"

DefaultPage == "language-implementation"

LanguageStatusRelPath ==
    "content/en/docs/languages/sdk-configuration/language-implementation-status.md"

TypesRelPath == "content/en/docs/languages/sdk-configuration/types.md"

\* the argument loop: the options found, or help = TRUE when the loop
\* reached --help or -h and the process exited there.  The legacy revision
\* knows no --page.
RECURSIVE ParseArgs(_, _, _, _)
ParseArgs(v, args, i, st) ==
    IF i > Len(args) THEN st
    ELSE IF args[i] = "--docs-repo" /\ i + 1 <= Len(args)
    THEN ParseArgs(v, args, i + 2, [st EXCEPT !.docsRepo = args[i + 1]])
    ELSE IF v = "current" /\ args[i] = "--page" /\ i + 1 <= Len(args)
    THEN ParseArgs(v, args, i + 2, [st EXCEPT !.page = args[i + 1]])
    ELSE IF args[i] = "--help" \/ args[i] = "-h"
    THEN [st EXCEPT !.help = TRUE]
    ELSE ParseArgs(v, args, i + 1, st)

\* !docsRepo
Falsy(value) == value = Null \/ value = ""

IsValidPageAny(v, p) == TRUE

\* the page check; the legacy revision has no page to check
IsValidPage(v, p) ==
    v = "legacy" \/ p = "language-implementation" \/ p = "types"

\* the page whose generator, file and marker id the run uses
TargetOf(p) ==
    IF p = "types"
    THEN [generator |-> "generateTypesDocumentation",
          relPath |-> TypesRelPath, markerId |-> "types",
          generating |-> "Generating types documentation...",
          updated |-> "Types documentation updated successfully",
          failed |-> "Failed to update types documentation (markers not found)"]
    ELSE [generator |-> "generateLanguageImplementationStatus",
          relPath |-> LanguageStatusRelPath, markerId |-> "language-implementation-status",
          generating |-> "Generating language implementation status...",
          updated |-> "Language implementation status updated successfully",
          failed |-> "Failed to update language implementation status (markers not found)"]

NoUpdater == [markerPrefix |-> "", source |-> <<>>]

FileIdle ==
    [done |-> FALSE, filePath |-> "", markerId |-> "", newContent |-> <<>>,
     before |-> [dirs |-> {}, files |-> <<>>], threw |-> NoError, ret |-> FALSE]

GenIdle ==
    [done |-> FALSE, fn |-> "", env |-> <<>>, threw |-> NoError, content |-> <<>>]

\* pc = "parse": the argument loop
MainParseArgs ==
    /\ pc = "parse"
    /\ LET st == ParseArgs(variant, argv, 1,
                           [docsRepo |-> Null, page |-> DefaultPage, help |-> FALSE])
       IN  /\ docsRepo' = st.docsRepo
           /\ page' = st.page
           /\ IF st.help
              THEN /\ log' = Append(log, "Usage")
                   /\ exitCode' = 0
                   /\ pc' = "exited"
              ELSE /\ pc' = "validate"
                   /\ UNCHANGED <<log, exitCode>>
    /\ UNCHANGED <<updater, secVars, fsVars, genOut, variant, argv, generated, invoked, steps>>

\* pc = "validate": --docs-repo is required and the page must be known
MainValidateArgs ==
    /\ pc = "validate"
    /\ IF Falsy(docsRepo)
       THEN /\ log' = Append(log, "Error: --docs-repo argument is required")
            /\ exitCode' = 1
            /\ pc' = "exited"
            /\ UNCHANGED <<docsRepo, steps>>
       ELSE IF ~IsValidPage(variant, page)
       THEN /\ log' = Append(log, "Error: Invalid page")
            /\ exitCode' = 1
            /\ pc' = "exited"
            /\ UNCHANGED <<docsRepo, steps>>
       ELSE /\ docsRepo' = resolve(docsRepo)
            /\ steps' = Append(steps, "arguments")
            /\ pc' = "checkRepo"
            /\ UNCHANGED <<log, exitCode>>
    /\ UNCHANGED <<updater, secVars, fsVars, genOut, variant, argv, page, generated, invoked>>

\* pc = "checkRepo": the documentation repository must exist; then the
\* updater is constructed
MainCheckDocsRepo ==
    /\ pc = "checkRepo"
    /\ IF ~existsSync(fs, docsRepo)
       THEN /\ log' = Append(log, "Error: Documentation repository not found")
            /\ exitCode' = 1
            /\ pc' = "exited"
            /\ UNCHANGED <<updater, steps>>
       ELSE /\ log' = Append(log, "Synchronizing documentation")
            /\ updater' = DocUpdater("GENERATED", Source)
            /\ steps' = Append(steps, "repository")
            /\ pc' = "generate"
            /\ UNCHANGED exitCode
    /\ UNCHANGED <<secVars, fsVars, genOut, variant, argv, docsRepo, page, generated, invoked>>

\* the generator main calls for a page
CallGenerator(v, p, env) ==
    IF TargetOf(p).generator = "generateTypesDocumentation"
    THEN generateTypesDocumentation(env)
    ELSE generateLanguageImplementationStatus(v, env)

\* the existence check of the target file left out
MainNoTargetCheck ==
    /\ pc = "checkTarget"
    /\ log' = Append(log, "Updating")
    /\ pc' = "update"
    /\ UNCHANGED <<updater, secVars, fsVars, genOut, variant, argv, docsRepo, page,
                   exitCode, generated, invoked, steps>>

\* pc = "checkTarget": the target file must exist
MainCheckTarget ==
    /\ pc = "checkTarget"
    /\ log' = IF ~existsSync(fs, join(docsRepo, TargetOf(page).relPath))
              THEN log \o <<"Updating", "Error: File not found">>
              ELSE Append(log, "Updating")
    /\ IF ~existsSync(fs, join(docsRepo, TargetOf(page).relPath))
       THEN /\ exitCode' = 1
            /\ pc' = "exited"
            /\ UNCHANGED steps
       ELSE /\ steps' = Append(steps, "target")
            /\ pc' = "update"
            /\ UNCHANGED exitCode
    /\ UNCHANGED <<updater, secVars, fsVars, genOut, variant, argv, docsRepo, page,
                   generated, invoked>>

\* the types branch left with the path of the language page
MainUpdateCallLanguagePath(p, repo) ==
    [filePath |-> join(repo, LanguageStatusRelPath), markerId |-> TargetOf(p).markerId]

\* the call main makes: the file and the marker id of the page
MainUpdateCall(p, repo) ==
    [filePath |-> join(repo, TargetOf(p).relPath), markerId |-> TargetOf(p).markerId]

\* pc = "update": updater.updateFile, then the closing messages; an
\* exception nobody catches ends the process with status 1
MainUpdateFile ==
    /\ pc = "update"
    /\ LET call == MainUpdateCall(page, docsRepo)
           r == updateFile(updater, fs, call.filePath, call.markerId, generated)
       IN  /\ fs' = r.fs
           /\ writes' = writes \o r.written
           /\ fileOut' = [done |-> TRUE, filePath |-> call.filePath,
                          markerId |-> call.markerId, newContent |-> generated,
                          before |-> fs, threw |-> r.threw, ret |-> r.ret]
           /\ IF r.threw # NoError
              THEN /\ log' = Append(log, "Uncaught exception")
                   /\ exitCode' = 1
                   /\ UNCHANGED steps
              ELSE IF r.ret
              THEN /\ log' = log \o <<TargetOf(page).updated,
                                      "Documentation synchronization complete!">>
                   /\ exitCode' = 0
                   /\ steps' = Append(steps, "write")
              ELSE /\ log' = Append(log, TargetOf(page).failed)
                   /\ exitCode' = 1
                   /\ UNCHANGED steps
           /\ pc' = "exited"
    /\ UNCHANGED <<updater, secVars, genOut, variant, argv, docsRepo, page,
                   generated, invoked>>

(***************************************************************************)
(* Calls of updateSection on bounded inputs                                *)
(***************************************************************************)

MaxContentLen == 5

\* the marker id of the calls under study
SectionMarkerIds == {"types"}

OtherId(markerId) ==
    IF markerId = "types" THEN "language-implementation-status" ELSE "types"

LegacyBegin(markerId) == MarkerNoSource("BEGIN", MarkerPrefix, markerId)
LegacyEnd(markerId) == MarkerNoSource("END", MarkerPrefix, markerId)
OtherSourceEnd(markerId) ==
    MarkerWithSource("END", MarkerPrefix, markerId, 2, <<"v", "-", "1", "_">>)
BadSourceBegin(markerId) ==
    MarkerWithSource("BEGIN", MarkerPrefix, markerId, 1, <<"a", ".", "b">>)

\* the tokens a file under study is made of
ContentAlphabet(markerId) ==
    {Text("x"), LegacyBegin(markerId), BadSourceBegin(markerId),
     LegacyEnd(markerId), OtherSourceEnd(markerId)}

SeqsUpTo(S, n) == UNION {[1..k -> S] : k \in 0..n}

\* generated content: plain text, and text with the "$" sequences a
\* description or a constraint can carry
NewContents ==
    {<<Text("x")>>,
     <<Dollar, Ampersand>>, <<Dollar, Dollar>>,
     <<Dollar, GraveAccent>>, <<Dollar, Apostrophe>>,
     <<Dollar, Text("1")>>, <<Text("x"), Dollar>>}

SecIdle == [done |-> FALSE, content |-> <<>>, wasUpdated |-> FALSE]

SecInIdle == [content |-> <<>>, markerId |-> "", newContent |-> <<>>]

EmptyFs == [dirs |-> {}, files |-> <<>>]

\* main has not started: the values of its variables in the specifications
\* that study one function
MainIdle ==
    /\ variant = "current"
    /\ argv = <<>>
    /\ pc = "idle"
    /\ docsRepo = Null
    /\ page = DefaultPage
    /\ exitCode = -1
    /\ log = <<>>
    /\ generated = <<>>
    /\ invoked = {}
    /\ steps = <<>>

SectionInit ==
    /\ updater = DocUpdater(MarkerPrefix, Source)
    /\ \E id \in SectionMarkerIds :
         \E c \in SeqsUpTo(ContentAlphabet(id), MaxContentLen) :
           \E nc \in NewContents :
             secIn = [content |-> c, markerId |-> id, newContent |-> nc]
    /\ secOut = SecIdle
    /\ fs = EmptyFs /\ writes = <<>> /\ fileOut = FileIdle
    /\ genOut = GenIdle
    /\ MainIdle

UpdateSectionCall ==
    /\ ~secOut.done
    /\ secIn # SecInIdle
    /\ LET r == updateSection(updater, secIn.content, secIn.markerId, secIn.newContent)
       IN  secOut' = [done |-> TRUE, content |-> r.content, wasUpdated |-> r.wasUpdated]
    /\ UNCHANGED <<updater, secIn, fsVars, genOut, mainVars>>

SectionNext == UpdateSectionCall

SectionSpec == SectionInit /\ [][SectionNext]_vars

(***************************************************************************)
(* Calls of updateFile on bounded file systems                             *)
(***************************************************************************)

MaxFileLen == 3

PagePath == "/work/docs/page.md"

OtherPath == "/work/docs/other.md"

FileInit ==
    /\ updater = DocUpdater(MarkerPrefix, Source)
    /\ \E page1 \in {NoFile} \cup {File(c) : c \in SeqsUpTo(ContentAlphabet("types"), MaxFileLen)} :
         fs = [dirs |-> {"/work/docs"},
               files |-> [q \in {PagePath, OtherPath} |->
                            IF q = PagePath THEN page1
                            ELSE File(<<LegacyBegin("types"), LegacyEnd("types")>>)]]
    /\ writes = <<>>
    /\ fileOut = FileIdle
    /\ secIn = SecInIdle /\ secOut = SecIdle
    /\ genOut = GenIdle
    /\ MainIdle

UpdateFileCall ==
    /\ pc = "idle"
    /\ ~fileOut.done
    /\ fs # EmptyFs
    /\ \E filePath \in {PagePath, "/work/docs/missing.md", "/work/docs"} :
         \E newContent \in NewContents :
           LET r == updateFile(updater, fs, filePath, "types", newContent)
           IN  /\ fs' = r.fs
               /\ writes' = writes \o r.written
               /\ fileOut' = [done |-> TRUE, filePath |-> filePath, markerId |-> "types",
                              newContent |-> newContent, before |-> fs,
                              threw |-> r.threw, ret |-> r.ret]
    /\ UNCHANGED <<updater, secVars, genOut, mainVars>>

FileNext == UpdateFileCall

FileSpec == FileInit /\ [][FileNext]_vars

(***************************************************************************)
(* Calls of the generators on bounded inputs                               *)
(***************************************************************************)

MaxImpls == 2

Languages == {"java", "go", "rust"}

Prose == Description(<<Text("text"), NL, SeePhrase("https://example.org/doc")>>)

Property(name, description, constraints) ==
    [property |-> name, experimental |-> FALSE, isSeq |-> FALSE,
     types |-> <<"Sampler", "string">>, defaultBehavior |-> "ignored",
     description |-> description, constraints |-> constraints]

Aggregation(propertyDescription) ==
    [type |-> "Aggregation", experimental |-> FALSE, isEnum |-> FALSE,
     isSdkExtensionPlugin |-> FALSE, description |-> Prose,
     required |-> {"base2"},
     properties |-> <<Property("base2", propertyDescription,
                               <<[name |-> "minimum", json |-> "0"]>>),
                      Property("drop", propertyDescription, <<>>)>>,
     enumValues |-> <<>>,
     constraints |-> <<[name |-> "minProperties", json |-> "1"],
                       [name |-> "maxProperties", json |-> "1"]>>]

Sampler ==
    [type |-> "Sampler", experimental |-> FALSE, isEnum |-> TRUE,
     isSdkExtensionPlugin |-> TRUE, description |-> Undefined,
     required |-> {}, properties |-> <<>>,
     enumValues |-> <<[enumValue |-> "always_on", description |-> Prose]>>,
     constraints |-> <<>>]

ExperimentalLogs ==
    [type |-> "ExperimentalLogs", experimental |-> TRUE, isEnum |-> FALSE,
     isSdkExtensionPlugin |-> FALSE, description |-> Prose,
     required |-> {}, properties |-> <<>>, enumValues |-> <<>>,
     constraints |-> <<>>]

\* what readSourceTypesByType can return: a schema, and the same schema with
\* properties that carry no description
Schemas ==
    {<<Sampler, Aggregation(Prose), ExperimentalLogs>>,
     <<Sampler, Aggregation(Undefined)>>}

TypeSupportStatuses ==
    {[type |-> "Aggregation", status |-> "supported", notes |-> "",
      propertyOverrides |-> <<[property |-> "drop", status |-> "ignored"]>>,
      enumOverrides |-> <<>>],
     [type |-> "Sampler", status |-> "supported", notes |-> "partial",
      propertyOverrides |-> <<>>,
      enumOverrides |-> <<[enumValue |-> "always_on", status |-> "not_implemented"]>>],
     [type |-> "Zipkin", status |-> "unknown", notes |-> "",
      propertyOverrides |-> <<>>, enumOverrides |-> <<>>]}

LanguageImplementations ==
    {[language |-> l, latestSupportedFileFormat |-> "1.0", typeSupportStatuses |-> s] :
        l \in Languages, s \in SeqsUpTo(TypeSupportStatuses, 1)}

\* what the imported readers can hand to the generators
Envs ==
    {[knownLanguages |-> k, messages |-> m, languageImplementations |-> li, sourceTypes |-> st] :
        k \in {<<"java">>, <<"java", "go">>},
        m \in {<<>>, <<"problem">>},
        li \in SeqsUpTo(LanguageImplementations, MaxImpls),
        st \in Schemas}

Variants == {"current", "legacy"}

GenInit ==
    /\ updater = NoUpdater
    /\ secIn = SecInIdle /\ secOut = SecIdle
    /\ fs = EmptyFs /\ writes = <<>> /\ fileOut = FileIdle
    /\ \E env \in Envs :
         genOut = [done |-> FALSE, fn |-> "", env |-> env, threw |-> NoError, content |-> <<>>]
    /\ variant \in Variants
    /\ argv = <<>> /\ pc = "idle" /\ docsRepo = Null /\ page = DefaultPage
    /\ exitCode = -1 /\ log = <<>> /\ generated = <<>> /\ invoked = {} /\ steps = <<>>

GenerateLanguageStatusCall ==
    /\ pc = "idle" /\ ~genOut.done /\ genOut.env # <<>>
    /\ LET r == generateLanguageImplementationStatus(variant, genOut.env)
       IN  genOut' = [genOut EXCEPT !.done = TRUE,
                                    !.fn = "generateLanguageImplementationStatus",
                                    !.threw = r.threw, !.content = r.content]
    /\ UNCHANGED <<updater, secVars, fsVars, mainVars>>

GenerateTypesCall ==
    /\ pc = "idle" /\ ~genOut.done /\ genOut.env # <<>>
    /\ variant = "current"
    /\ LET r == generateTypesDocumentation(genOut.env)
       IN  genOut' = [genOut EXCEPT !.done = TRUE,
                                    !.fn = "generateTypesDocumentation",
                                    !.threw = r.threw, !.content = r.content]
    /\ UNCHANGED <<updater, secVars, fsVars, mainVars>>

GenNext == GenerateLanguageStatusCall \/ GenerateTypesCall

GenSpec == GenInit /\ [][GenNext]_vars

(***************************************************************************)
(* Runs of main                                                            *)
(***************************************************************************)

MaxArgs == 4

ArgWords == {"--docs-repo", "--page", "--help", "docs", "types", "language-implementation"}

JavaOnly(statuses) ==
    <<[language |-> "java", latestSupportedFileFormat |-> "1.0",
       typeSupportStatuses |-> statuses]>>

\* reader results of each kind a run can meet: consistent ones, ones with
\* messages, with a language missing, with an unknown type, and a schema
\* whose properties carry no description
MainEnvs ==
    {e \in Envs :
        /\ e.knownLanguages = <<"java">>
        /\ \/ e.languageImplementations = <<>> /\ e.messages = <<>>
           \/ \E s \in TypeSupportStatuses :
                 /\ e.languageImplementations = JavaOnly(<<s>>)
                 /\ s.type = "Aggregation" \/ e.messages = <<>>
                 /\ s.type # "Sampler"}

LanguageStatusPath == join(resolve("docs"), LanguageStatusRelPath)

TypesPath == join(resolve("docs"), TypesRelPath)

\* a target file that holds a section for markerId, and one that holds
\* only a section for the other marker id
FileWithSection(markerId) ==
    <<Text("x"), LegacyBegin(markerId), Text("x"), OtherSourceEnd(markerId), Text("x")>>

FileWithoutSection(markerId) ==
    <<Text("x"), LegacyBegin(OtherId(markerId)), LegacyEnd(OtherId(markerId))>>

TargetFiles(markerId) ==
    {NoFile, File(FileWithSection(markerId)), File(FileWithoutSection(markerId))}

\* the documentation repository is the directory docs of the working
\* directory; a target path may also be taken by a directory
MainFileSystems ==
    {[dirs |-> {resolve("docs")},
      files |-> [q \in {LanguageStatusPath, TypesPath} |->
                   IF q = LanguageStatusPath THEN l ELSE t]] :
        l \in TargetFiles("language-implementation-status"),
        t \in TargetFiles("types")}
    \cup
    {[dirs |-> {resolve("docs"), LanguageStatusPath},
      files |-> [q \in {LanguageStatusPath, TypesPath} |->
                   IF q = LanguageStatusPath THEN NoFile
                   ELSE File(FileWithSection("types"))]]}

Init ==
    /\ updater = NoUpdater
    /\ secIn = SecInIdle /\ secOut = SecIdle
    /\ fs \in MainFileSystems
    /\ writes = <<>>
    /\ fileOut = FileIdle
    /\ genOut = GenIdle
    /\ variant \in Variants
    /\ argv \in SeqsUpTo(ArgWords, MaxArgs)
    /\ pc = "parse"
    /\ docsRepo = Null
    /\ page = DefaultPage
    /\ exitCode = -1
    /\ log = <<>>
    /\ generated = <<>>
    /\ invoked = {}
    /\ steps = <<>>

\* pc = "generate": the generator of the page runs on what the readers
\* return; an exception nobody catches ends the process with status 1
MainGenerate ==
    /\ pc = "generate"
    /\ \E env \in MainEnvs :
         LET r == CallGenerator(variant, page, env)
         IN  /\ invoked' = invoked \cup {TargetOf(page).generator}
             /\ genOut' = [done |-> TRUE, fn |-> TargetOf(page).generator, env |-> env,
                           threw |-> r.threw, content |-> r.content]
             /\ IF r.threw # NoError
                THEN /\ log' = log \o <<TargetOf(page).generating, "Uncaught exception">>
                     /\ exitCode' = 1
                     /\ pc' = "exited"
                     /\ UNCHANGED <<generated, steps>>
                ELSE /\ log' = Append(log, TargetOf(page).generating)
                     /\ generated' = r.content
                     /\ steps' = Append(steps, "content")
                     /\ pc' = "checkTarget"
                     /\ UNCHANGED exitCode
    /\ UNCHANGED <<updater, secVars, fsVars, variant, argv, docsRepo, page>>

Next ==
    \/ MainParseArgs
    \/ MainValidateArgs
    \/ MainCheckDocsRepo
    \/ MainGenerate
    \/ MainCheckTarget
    \/ MainUpdateFile

Spec == Init /\ [][Next]_vars

(***************************************************************************)
(* Vocabulary of the claims about updateSection, stated on the input text  *)
(* without the pattern matcher.                                            *)
(***************************************************************************)

WordHyphenName(name) ==
    /\ name # <<>>
    /\ \A k \in DOMAIN name : name[k] \in WordChars \/ name[k] = "-"

\* a marker comment of the given kind for markerId: without a SOURCE part,
\* or with a SOURCE name made of word characters and hyphens
IsMarkerFor(kind, markerId, tok) ==
    /\ tok.tag = kind /\ tok.prefix = MarkerPrefix /\ tok.id = markerId
    /\ (tok.hasSource => WordHyphenName(tok.source))

\* some begin marker is followed later by an end marker
HasMarkerPair(c, markerId) ==
    \E i \in DOMAIN c : \E j \in DOMAIN c :
        i < j /\ IsMarkerFor("BEGIN", markerId, c[i]) /\ IsMarkerFor("END", markerId, c[j])

\* i opens a matched region: a begin marker with an end marker after it,
\* every earlier begin marker being closed before i
RegionStart(c, markerId, i) ==
    /\ IsMarkerFor("BEGIN", markerId, c[i])
    /\ \E j \in (i+1)..Len(c) : IsMarkerFor("END", markerId, c[j])
    /\ \A b \in 1..(i-1) :
          IsMarkerFor("BEGIN", markerId, c[b]) =>
              \E e \in (b+1)..(i-1) : IsMarkerFor("END", markerId, c[e])

\* the nearest end marker after i
RegionEnd(c, markerId, i) ==
    CHOOSE j \in (i+1)..Len(c) :
        /\ IsMarkerFor("END", markerId, c[j])
        /\ \A e \in (i+1)..(j-1) : ~IsMarkerFor("END", markerId, c[e])

RegionStarts(c, markerId) == {i \in DOMAIN c : RegionStart(c, markerId, i)}

NextRegion(c, markerId, from) ==
    LET later == {i \in RegionStarts(c, markerId) : i > from}
    IN  IF later = {} THEN 0 ELSE CHOOSE i \in later : \A k \in later : i <= k

\* out, read from offset o, is c, read from offset from, with every matched
\* region replaced by some section "begin marker, newline, ..., newline, end
\* marker" and everything outside the regions copied
RECURSIVE FramePreserved(_, _, _, _, _)
FramePreserved(out, o, c, from, markerId) ==
    LET i == NextRegion(c, markerId, from)
    IN  IF i = 0
        THEN SubSeq(out, o + 1, Len(out)) = SubSeq(c, from + 1, Len(c))
        ELSE LET g == i - 1 - from
                 j == RegionEnd(c, markerId, i)
             IN  /\ o + g + 4 <= Len(out)
                 /\ SubSeq(out, o + 1, o + g) = SubSeq(c, from + 1, i - 1)
                 /\ IsMarkerFor("BEGIN", markerId, out[o + g + 1])
                 /\ out[o + g + 2] = NL
                 /\ \E e \in (o + g + 4)..Len(out) :
                       /\ out[e - 1] = NL
                       /\ IsMarkerFor("END", markerId, out[e])
                       /\ FramePreserved(out, e, c, j, markerId)

\* c with every matched region replaced by exactly section
RECURSIVE SplicedExactly(_, _, _, _)
SplicedExactly(c, from, markerId, section) ==
    LET i == NextRegion(c, markerId, from)
    IN  IF i = 0 THEN SubSeq(c, from + 1, Len(c))
        ELSE SubSeq(c, from + 1, i - 1) \o section
               \o SplicedExactly(c, RegionEnd(c, markerId, i), markerId, section)

\* every section that replaced a region opens with begin and closes with end
RECURSIVE SectionsDelimitedBy(_, _, _, _, _, _, _)
SectionsDelimitedBy(out, o, c, from, markerId, begin, end) ==
    LET i == NextRegion(c, markerId, from)
    IN  IF i = 0
        THEN Len(out) - o = Len(c) - from
        ELSE LET g == i - 1 - from
             IN  /\ o + g + 2 <= Len(out)
                 /\ out[o + g + 1] = begin
                 /\ \E e \in (o + g + 2)..Len(out) :
                       /\ out[e] = end
                       /\ SectionsDelimitedBy(out, e, c, RegionEnd(c, markerId, i),
                                              markerId, begin, end)

\* C1: when the content holds a begin marker for markerId followed later by
\* an end marker, updateSection reports wasUpdated = TRUE, every matched
\* region is replaced by a marker-delimited section, and the text before,
\* between and after the regions is unchanged.
C1_FramePreserved ==
    (secOut.done /\ HasMarkerPair(secIn.content, secIn.markerId)) =>
        /\ secOut.wasUpdated
        /\ FramePreserved(secOut.content, 0, secIn.content, 0, secIn.markerId)

\* two regions with text between them, text before the first, replaced
C1_Witness ==
    /\ secOut.done /\ secOut.wasUpdated
    /\ Cardinality(RegionStarts(secIn.content, secIn.markerId)) = 2
    /\ \E i \in RegionStarts(secIn.content, secIn.markerId) :
         /\ i > 1
         /\ secIn.content[i - 1] = Text("x")
         /\ RegionEnd(secIn.content, secIn.markerId, i) = Len(secIn.content)

\* C2: whenever wasUpdated = TRUE, each replaced section of the returned
\* content is exactly begin, newline, newContent, newline, end, for every
\* newContent, "$" sequences included.
C2_ExactNewContent ==
    (secOut.done /\ secOut.wasUpdated) =>
        LET mp == getMarkerPattern(updater, secIn.markerId)
        IN  secOut.content =
              SplicedExactly(secIn.content, 0, secIn.markerId,
                             <<mp.begin, NL>> \o secIn.newContent \o <<NL, mp.end>>)

\* C3: when no begin marker for markerId is followed by an end marker, the
\* result is the input content unchanged with wasUpdated = FALSE.
C3_NoMarkersNoChange ==
    (secOut.done /\ ~HasMarkerPair(secIn.content, secIn.markerId)) =>
        /\ ~secOut.wasUpdated
        /\ secOut.content = secIn.content

\* an end marker only before the begin marker, and a begin marker that is
\* not closed
C3_Witness ==
    /\ secOut.done /\ ~secOut.wasUpdated
    /\ Len(secIn.content) >= 2
    /\ IsMarkerFor("END", secIn.markerId, secIn.content[1])
    /\ \E i \in DOMAIN secIn.content :
         IsMarkerFor("BEGIN", secIn.markerId, secIn.content[i])

\* C4: markers without a SOURCE part and markers with any SOURCE name of
\* word characters and hyphens are recognised, and every replaced section
\* is delimited by the markers of getMarkerPattern, which carry the
\* updater's own source: one update upgrades a legacy pair.
C4_LegacyUpgraded ==
    secOut.done =>
        /\ secOut.wasUpdated <=> HasMarkerPair(secIn.content, secIn.markerId)
        /\ secOut.wasUpdated =>
             LET mp == getMarkerPattern(updater, secIn.markerId)
             IN  /\ mp.begin.hasSource /\ mp.begin.source = updater.source
                 /\ mp.end.hasSource /\ mp.end.source = updater.source
                 /\ SectionsDelimitedBy(secOut.content, 0, secIn.content, 0,
                                        secIn.markerId, mp.begin, mp.end)

\* a region opened by a marker without SOURCE and closed by a marker with
\* another source name has been replaced
C4_Witness ==
    /\ secOut.done /\ secOut.wasUpdated
    /\ \E i \in RegionStarts(secIn.content, secIn.markerId) :
         /\ ~secIn.content[i].hasSource
         /\ LET e == secIn.content[RegionEnd(secIn.content, secIn.markerId, i)]
            IN  e.hasSource /\ e.source # updater.source
    /\ \E k \in DOMAIN secOut.content :
         secOut.content[k] = getMarkerPattern(updater, secIn.markerId).begin

(***************************************************************************)
(* Claims about updateFile, the generators and main                        *)
(***************************************************************************)

Range(seq) == {seq[k] : k \in DOMAIN seq}

\* the regular file at path in a file system, NoFile when there is none
FileAt(fsys, path) ==
    IF path \in DOMAIN fsys.files THEN fsys.files[path] ELSE NoFile

PathExists(fsys, path) == path \in fsys.dirs \/ FileAt(fsys, path).exists

\* C5: updateFile throws "File not found" without writing when the file does
\* not exist; returns FALSE and leaves the file alone when the markers are
\* not found; returns TRUE and writes exactly the content updateSection
\* returns when they are found.  A write happens exactly when it returns
\* TRUE.
C5_UpdateFileContract ==
    fileOut.done =>
        LET path == fileOut.filePath
            old == FileAt(fileOut.before, path)
            paired == HasMarkerPair(old.data, fileOut.markerId)
            expected == updateSection(updater, old.data, fileOut.markerId,
                                      fileOut.newContent).content
        IN  /\ ~PathExists(fileOut.before, path) =>
                 /\ fileOut.threw = "File not found"
                 /\ writes = <<>> /\ fs = fileOut.before
            /\ (old.exists /\ ~paired) =>
                 /\ fileOut.threw = NoError /\ ~fileOut.ret
                 /\ writes = <<>> /\ fs = fileOut.before
            /\ (old.exists /\ paired) =>
                 /\ fileOut.threw = NoError /\ fileOut.ret
                 /\ writes = <<[path |-> path, data |-> expected]>>
                 /\ FileAt(fs, path) = File(expected)
                 /\ \A q \in DOMAIN fs.files : q # path => fs.files[q] = FileAt(fileOut.before, q)
            /\ (writes # <<>>) <=> fileOut.ret

\* a call that found the markers and wrote a changed file
C5_Witness ==
    /\ fileOut.done /\ fileOut.ret
    /\ Len(writes) = 1
    /\ FileAt(fs, fileOut.filePath) # FileAt(fileOut.before, fileOut.filePath)

\* the ways a run fails, read off its inputs
DocsRepoAbsent == ~\E i \in 1..(Len(argv) - 1) : argv[i] = "--docs-repo"

PageInvalid == page # "language-implementation" /\ page # "types"

DocsRepoMissing == "arguments" \in Range(steps) /\ ~PathExists(fs, docsRepo)

PathOfPage(p, repo) ==
    IF p = "types"
    THEN repo \o "/content/en/docs/languages/sdk-configuration/types.md"
    ELSE repo \o "/content/en/docs/languages/sdk-configuration/language-implementation-status.md"

PageMarkerId(p) == IF p = "types" THEN "types" ELSE "language-implementation-status"

TargetMissing == "content" \in Range(steps) /\ ~PathExists(fs, PathOfPage(page, docsRepo))

MarkersNotFound ==
    /\ "target" \in Range(steps)
    /\ FileAt(fs, PathOfPage(page, docsRepo)).exists
    /\ ~HasMarkerPair(FileAt(fs, PathOfPage(page, docsRepo)).data, PageMarkerId(page))

GeneratorThrew == genOut.done /\ genOut.threw # NoError

FailingRun ==
    \/ DocsRepoAbsent \/ PageInvalid \/ DocsRepoMissing
    \/ TargetMissing \/ MarkersNotFound \/ GeneratorThrew

\* C6 as stated: every failing run (--docs-repo absent, page invalid,
\* repository or target file missing, markers not found, generator threw)
\* ends with a non-zero exit status and writes no file.
C6_FailingRunsExitNonZero ==
    (pc = "exited" /\ variant = "current" /\ FailingRun) =>
        (exitCode # 0 /\ writes = <<>>)

\* C6 amended: the same, for the runs whose argument scan does not reach
\* --help or -h (which prints the usage and exits with status 0).
C6_FailingRunsExceptHelp ==
    (pc = "exited" /\ variant = "current" /\ FailingRun /\ "Usage" \notin Range(log)) =>
        (exitCode # 0 /\ writes = <<>>)

\* a run that got as far as updateFile and failed on the markers
C6_Witness ==
    /\ pc = "exited" /\ variant = "current"
    /\ MarkersNotFound /\ fileOut.done
    /\ exitCode = 1

\* C7: without --page the page is language-implementation; a run can
\* modify only the file of its page, using the marker id of its page; no
\* run modifies both files; only the generator of the page is invoked.
C7_PageSelectsTarget ==
    (pc # "parse" /\ variant = "current") =>
        /\ (\A i \in DOMAIN argv : argv[i] # "--page") => page = "language-implementation"
        /\ \A k \in DOMAIN writes : writes[k].path = PathOfPage(page, docsRepo)
        /\ fileOut.done =>
             /\ fileOut.filePath = PathOfPage(page, docsRepo)
             /\ fileOut.markerId = PageMarkerId(page)
             /\ \A q \in DOMAIN fs.files :
                   q # PathOfPage(page, docsRepo) => fs.files[q] = FileAt(fileOut.before, q)
        /\ Cardinality({writes[k].path : k \in DOMAIN writes}) <= 1
        /\ invoked \subseteq {IF page = "types" THEN "generateTypesDocumentation"
                              ELSE "generateLanguageImplementationStatus"}

\* a run of the types page that wrote its file
C7_Witness ==
    /\ pc = "exited" /\ variant = "current" /\ page = "types"
    /\ Len(writes) = 1
    /\ invoked = {"generateTypesDocumentation"}

\* has the source schema a type of this name
InSchema(env, type) == \E k \in DOMAIN env.sourceTypes : env.sourceTypes[k].type = type

HasRecord(env, language) ==
    \E k \in DOMAIN env.languageImplementations :
        env.languageImplementations[k].language = language

\* the record the tables of a language are made from: the first one
FirstRecord(env, language) ==
    env.languageImplementations[
        Min({k \in DOMAIN env.languageImplementations :
                env.languageImplementations[k].language = language})]

NamesUnknownType(env, record) ==
    \E s \in DOMAIN record.typeSupportStatuses :
        ~InSchema(env, record.typeSupportStatuses[s].type)

LanguageStatusCall ==
    genOut.done /\ genOut.fn = "generateLanguageImplementationStatus"

\* C8 as stated: the generator throws, and returns no content, if there is
\* any message, if a known language has no record, or if any
\* typeSupportStatus names a type that is not in the source schema.
C8_ThrowsOnAnyUnknownType ==
    LET env == genOut.env
    IN  (/\ LanguageStatusCall
         /\ \/ env.messages # <<>>
            \/ \E k \in DOMAIN env.knownLanguages : ~HasRecord(env, env.knownLanguages[k])
            \/ \E r \in DOMAIN env.languageImplementations :
                  NamesUnknownType(env, env.languageImplementations[r]))
        => (genOut.threw # NoError /\ genOut.content = <<>>)

\* C8 amended: the third condition counts only the records the tables are
\* made from, the first record of each known language.
C8_FailFast ==
    LET env == genOut.env
    IN  (/\ LanguageStatusCall
         /\ \/ env.messages # <<>>
            \/ \E k \in DOMAIN env.knownLanguages : ~HasRecord(env, env.knownLanguages[k])
            \/ \E k \in DOMAIN env.knownLanguages :
                  /\ HasRecord(env, env.knownLanguages[k])
                  /\ NamesUnknownType(env, FirstRecord(env, env.knownLanguages[k])))
        => (genOut.threw # NoError /\ genOut.content = <<>>)

\* no message, every known language has a record, and the call threw on an
\* unknown type
C8_Witness ==
    /\ LanguageStatusCall
    /\ genOut.env.messages = <<>>
    /\ \A k \in DOMAIN genOut.env.knownLanguages :
          HasRecord(genOut.env, genOut.env.knownLanguages[k])
    /\ genOut.threw = "SourceSchemaType not found"

\* C9: a run writes at most one file, and only after argument validation,
\* the repository check, content generation and the target-file check have
\* succeeded in that order; the closing message is printed only in a run
\* that wrote.
C9_WriteAfterChecks ==
    /\ Len(writes) <= 1
    /\ writes # <<>> =>
         /\ Len(steps) >= 4
         /\ steps[1] = "arguments" /\ steps[2] = "repository"
         /\ steps[3] = "content" /\ steps[4] = "target"
    /\ "Documentation synchronization complete!" \in Range(log) => Len(writes) = 1

\* a run that wrote and printed the closing message
C9_Witness ==
    /\ pc = "exited" /\ exitCode = 0
    /\ Len(writes) = 1
    /\ "Documentation synchronization complete!" \in Range(log)

====
